---- MODULE Spec2Model ----
(***************************************************************************)
(* A model of agrep: the pattern parser (src/ast.rs), the lowering to the  *)
(* Regex IR (src/regex.rs), the NFA builder and the matcher (src/nfa.rs),  *)
(* and the driver's parse function (src/main.rs).                          *)
(*                                                                         *)
(* A pattern is a sequence of scalar values.  A scalar value is written as *)
(* a one-character string, except "eacute" (U+00E9), the one scalar value  *)
(* of the model whose UTF-8 encoding is longer than one byte.  Offsets are *)
(* byte offsets, as in the source.                                         *)
(***************************************************************************)
EXTENDS Integers, Sequences, FiniteSets, TLC

VARIABLES
    pattern,    \* the &str handed to Parser::parse
    parser,     \* the ast::Parser object: offset, group_stack, class_stack
    stack,      \* the local `stack` of ParserVM::parse
    pc,         \* where the run is: "start", "parsing", "parsed", ...
    result,     \* what Parser::parse returned: Ok(ast), Err, or a panic
    calls,      \* number of Parser::parse calls made on this Parser object
    regex,      \* the Regex IR returned by regex::Parser::parse
    nfa,        \* the NFA returned by NFA::from_regex
    input,      \* the &[char] handed to NFAVM::new
    vm,         \* the NFAVM object: pos, state
    verdict,    \* what NFAVM::run returned
    verdicts    \* what the runs made so far on this NFA and input returned

vars == <<pattern, parser, stack, pc, result, calls, regex, nfa, input, vm, verdict, verdicts>>

(***************************************************************************)
(* Scalar values: code point, UTF-8 length, character classes.             *)
(***************************************************************************)
Code(c) ==
    CASE c = " " -> 32  [] c = "$" -> 36  [] c = "(" -> 40  [] c = ")" -> 41
      [] c = "*" -> 42  [] c = "+" -> 43  [] c = "," -> 44  [] c = "-" -> 45
      [] c = "." -> 46  [] c = "0" -> 48  [] c = "1" -> 49  [] c = "2" -> 50
      [] c = "3" -> 51  [] c = "4" -> 52  [] c = "5" -> 53  [] c = "6" -> 54
      [] c = "7" -> 55  [] c = "8" -> 56  [] c = "9" -> 57  [] c = "?" -> 63
      [] c = "A" -> 65  [] c = "[" -> 91  [] c = "\\" -> 92 [] c = "]" -> 93
      [] c = "^" -> 94  [] c = "a" -> 97  [] c = "b" -> 98  [] c = "c" -> 99
      [] c = "d" -> 100 [] c = "f" -> 102 [] c = "l" -> 108 [] c = "m" -> 109
      [] c = "o" -> 111 [] c = "s" -> 115 [] c = "t" -> 116 [] c = "x" -> 120
      [] c = "z" -> 122 [] c = "{" -> 123 [] c = "|" -> 124 [] c = "}" -> 125
      [] c = "eacute" -> 233
      [] c = "U+0000" -> 0 [] c = "U+10FFFF" -> 1114111
      [] OTHER -> 65533

\* char::len_utf8: every scalar value of a pattern is ASCII but "eacute"
len_utf8(c) == IF c = "eacute" THEN 2 ELSE 1

\* char::is_whitespace
is_whitespace(c) == c = " "

Digits == <<"0", "1", "2", "3", "4", "5", "6", "7", "8", "9">>

\* char::is_digit(10)
is_digit(c) == \E i \in 1..10 : Digits[i] = c

\* char::to_digit(10)
to_digit(c) == (CHOOSE i \in 1..10 : Digits[i] = c) - 1

\* What str slicing yields where no scalar value starts: the end of the
\* pattern (None) and an offset inside a scalar value (the slice panics).
NoChar == "None"
BadSlice == "not a char boundary"

(***************************************************************************)
(* AST (src/ast.rs)                                                        *)
(***************************************************************************)
Empty == [t |-> "Empty"]
Literal(c) == [t |-> "Literal", c |-> c]
Wildcard == [t |-> "Wildcard"]
Anchor(a) == [t |-> "Anchor", anchor |-> a]
Class(negated, items) == [t |-> "Class", negated |-> negated, items |-> items]
Group(x) == [t |-> "Group", child |-> x]
Repetition(rep, x) == [t |-> "Repetition", rep |-> rep, child |-> x]
Concat(xs) == [t |-> "Concat", items |-> xs]
Alternation(xs) == [t |-> "Alternation", items |-> xs]

Ordinary(c) == [t |-> "Ordinary", c |-> c]
Range(start, end) == [t |-> "Range", start |-> start, end |-> end]

ZeroOrOne == [t |-> "ZeroOrOne"]
ZeroOrMore == [t |-> "ZeroOrMore"]
OneOrMore == [t |-> "OneOrMore"]
RepExact(n) == [t |-> "Exact", n |-> n]
RepLower(n) == [t |-> "Lower", n |-> n]
RepRange(m, n) == [t |-> "Range", m |-> m, n |-> n]

\* Result<AST>, and the third way a call can end: a panic.
Running == [kind |-> "Running"]
Ok(x) == [kind |-> "Ok", ast |-> x]
Err == [kind |-> "Err"]
Panic == [kind |-> "Panic"]

\* Parser::new
ParserNew == [offset |-> 0, group_stack |-> <<>>, class_stack |-> <<>>]

\* Parser::reset
reset(p) == [p EXCEPT !.offset = 0]

(***************************************************************************)
(* The cursor of ParserVM.  s is the pattern, off the byte offset.         *)
(***************************************************************************)
RECURSIVE ByteOff(_, _)
\* byte offset of the i-th scalar value of s (i = Len(s) + 1: s.len())
ByteOff(s, i) == IF i <= 1 THEN 0 ELSE ByteOff(s, i - 1) + len_utf8(s[i - 1])

\* str::len
ByteLen(s) == ByteOff(s, Len(s) + 1)

\* s[off..].chars().next()
CharsNext(s, off) ==
    IF off >= ByteLen(s) THEN NoChar
    ELSE IF \E i \in 1..Len(s) : ByteOff(s, i) = off
         THEN s[CHOOSE i \in 1..Len(s) : ByteOff(s, i) = off]
         ELSE BadSlice

is_eof(s, off) == off >= ByteLen(s)

char(s, off) == CharsNext(s, off)

peek(s, off) == CharsNext(s, off + len_utf8(char(s, off)))

\* next with self.parser.offset += 1: a scalar value taken for one byte
next_off_one_byte(s, off) == IF is_eof(s, off) THEN off ELSE off + 1

\* the offset ParserVM::next leaves
next_off(s, off) == IF is_eof(s, off) THEN off ELSE off + len_utf8(char(s, off))

\* the value ParserVM::next returns
next(s, off) == IF is_eof(s, off) THEN FALSE ELSE CharsNext(s, next_off(s, off)) # NoChar

RECURSIVE strip_off(_, _)
\* the offset ParserVM::strip leaves
strip_off(s, off) ==
    IF ~is_eof(s, off) /\ is_whitespace(char(s, off))
    THEN strip_off(s, next_off(s, off))
    ELSE off

\* the value ParserVM::strip returns
strip(s, off) == ~is_eof(s, strip_off(s, off))

\* next_strip without the strip: whitespace is left where it stands
next_strip_off_unstripped(s, off) == next_off(s, off)

next_strip_off(s, off) == strip_off(s, next_off(s, off))

next_strip(s, off) == strip(s, next_off(s, off))

(***************************************************************************)
(* The handlers of ParserVM.  Each takes the pattern s, the Parser object  *)
(* p and the working stack st, and yields the Parser object and the stack  *)
(* it leaves and how it ended: Running (the loop of ParserVM::parse goes   *)
(* on), Err (the ? operator or bail! returned early) or Panic.             *)
(***************************************************************************)
Last(q) == q[Len(q)]
Front(q) == SubSeq(q, 1, Len(q) - 1)

Outcome(p, st, res) == [parser |-> p, stack |-> st, res |-> res]

\* the match with the arms for 0 and 1 left out
reduce_always_concat(st) == Concat(st)

\* match stack.len() { 0 => AST::Empty, 1 => stack.pop().unwrap(), _ => AST::Concat(stack) }
reduce(st) ==
    IF Len(st) = 0 THEN Empty
    ELSE IF Len(st) = 1 THEN st[1]
    ELSE Concat(st)

\* if let Some(AST::Alternation(alt)) = group.last_mut()
last_is_alternation(group) == Len(group) > 0 /\ Last(group).t = "Alternation"

\* a new Alternation around the one last in group, instead of alt.push(concat)
alt_push_nested(group, concat) ==
    [group EXCEPT ![Len(group)] = Alternation(<<Last(group), concat>>)]

\* alt.push(concat), where alt is the Alternation last in group
alt_push(group, concat) ==
    [group EXCEPT ![Len(group)] = Alternation(Append(Last(group).items, concat))]

\* num * 10 + digit leaves the range of u32 (u32::MAX = 4294967295)
overflows(num, d) == num > 429496729 \/ (num = 429496729 /\ d > 5)

\* (num * 10 + d) modulo 2^32, computed on 16-bit halves
wrapping_mul10_add(num, d) ==
    LET lo == (num % 65536) * 10 + d
        hi == (num \div 65536) * 10 + (lo \div 65536)
    IN  (hi % 65536) * 65536 + (lo % 65536)

RECURSIVE parse_int_loop(_, _, _, _)
\* the while loop of parse_int
parse_int_loop(s, off, num, ovf) ==
    IF ~is_eof(s, off) /\ is_digit(char(s, off))
    THEN LET d == to_digit(char(s, off)) IN
         IF overflows(num, d)
         THEN IF ovf = "panic"
              THEN [off |-> off, num |-> num, panic |-> TRUE]
              ELSE parse_int_loop(s, next_strip_off(s, off), wrapping_mul10_add(num, d), ovf)
         ELSE parse_int_loop(s, next_strip_off(s, off), num * 10 + d, ovf)
    ELSE [off |-> off, num |-> num, panic |-> FALSE]

\* parse_int that takes a missing digit sequence for the count 1
parse_int_missing_is_one(s, off, ovf) ==
    IF ~is_eof(s, strip_off(s, off)) /\ is_digit(char(s, strip_off(s, off)))
    THEN parse_int_loop(s, strip_off(s, off), 0, ovf)
    ELSE [off |-> strip_off(s, off), num |-> 1, panic |-> FALSE]

\* ParserVM::parse_int.  ovf is what the build does on u32 overflow:
\* "panic" (overflow checks on) or "wrap" (overflow checks off).
parse_int(s, off, ovf) == parse_int_loop(s, strip_off(s, off), 0, ovf)

start_group(s, p, st) ==
    LET off1 == next_off(s, p.offset)
        p1 == [p EXCEPT !.offset = off1]
    IN  IF ~next(s, p.offset)
        THEN Outcome(p1, st, Panic)
        ELSE Outcome([p1 EXCEPT !.group_stack = Append(p.group_stack, st)], <<>>, Running)

end_group(s, p, st) ==
    LET off1 == next_off(s, p.offset)
        p1 == [p EXCEPT !.offset = off1]
    IN  IF Len(p.group_stack) = 0
        THEN Outcome(p1, st, Err)
        ELSE LET group == Last(p.group_stack)
                 p2 == [p1 EXCEPT !.group_stack = Front(p.group_stack)]
                 concat == reduce(st)
             IN  IF last_is_alternation(group)
                 THEN Outcome(p2, alt_push(group, concat), Running)
                 ELSE Outcome(p2, Append(group, Group(concat)), Running)

parse_alternate(s, p, st) ==
    LET off1 == next_off(s, p.offset)
        p1 == [p EXCEPT !.offset = off1]
    IN  IF ~next(s, p.offset)
        THEN Outcome(p1, st, Panic)
        ELSE LET gs == IF Len(p.group_stack) = 0 THEN << <<>> >> ELSE p.group_stack
                 group == Last(gs)
                 concat == reduce(st)
                 group1 == IF last_is_alternation(group)
                           THEN alt_push(group, concat)
                           ELSE Append(group, Alternation(<<concat>>))
             IN  Outcome([p1 EXCEPT !.group_stack = [gs EXCEPT ![Len(gs)] = group1]],
                         <<>>, Running)

finish_parse(s, p, st) ==
    LET concat == reduce(st) IN
    IF Len(p.group_stack) # 0
    THEN LET group == Last(p.group_stack)
             p1 == [p EXCEPT !.group_stack = Front(p.group_stack)]
         IN  IF last_is_alternation(group)
             THEN Outcome(p1, <<>>, Ok(reduce(alt_push(group, concat))))
             ELSE Outcome(p1, <<>>, Panic)
    ELSE Outcome(p, <<>>, Ok(concat))

\* what parse_class yields: the offset it leaves, how it ended, the node
ClassOut(off, res, ast) == [off |-> off, res |-> res, ast |-> ast]

RECURSIVE parse_class_loop(_, _, _, _)

\* if !self.next() { bail!(..) } at the end of an item, then the loop again
class_next_item(s, off, negated, items) ==
    IF ~next(s, off)
    THEN ClassOut(next_off(s, off), Err, Empty)
    ELSE parse_class_loop(s, next_off(s, off), negated, items)

\* the range arm pushing ClassItem::Ordinary(start) instead of the Range
class_range_end_ordinary(s, off, negated, items, start) ==
    IF Code(start) >= Code(char(s, off))
    THEN ClassOut(off, Err, Empty)
    ELSE class_next_item(s, off, negated, Append(items, Ordinary(start)))

\* the range arm without the comparison of start and end
class_range_end_unchecked(s, off, negated, items, start) ==
    class_next_item(s, off, negated, Append(items, Range(start, char(s, off))))

\* the range arm from `let end = self.char()` on; off is the offset of end
class_range_end(s, off, negated, items, start) ==
    IF Code(start) >= Code(char(s, off))
    THEN ClassOut(off, Err, Empty)
    ELSE class_next_item(s, off, negated, Append(items, Range(start, char(s, off))))

\* the range arm: if !self.next() || !self.next() { bail!(..) }
class_range(s, off, negated, items) ==
    IF ~next(s, off)
    THEN ClassOut(next_off(s, off), Err, Empty)
    ELSE IF ~next(s, next_off(s, off))
    THEN ClassOut(next_off(s, next_off(s, off)), Err, Empty)
    ELSE class_range_end(s, next_off(s, next_off(s, off)), negated, items, char(s, off))

\* the while loop of parse_class
parse_class_loop(s, off, negated, items) ==
    IF char(s, off) = "]"
    THEN ClassOut(next_off(s, off), Running, Class(negated, items))
    ELSE IF char(s, off) = "["
    THEN ClassOut(off, Panic, Empty)
    ELSE IF peek(s, off) = "-"
    THEN class_range(s, off, negated, items)
    ELSE class_next_item(s, off, negated, Append(items, Ordinary(char(s, off))))

\* parse_class from the first character after '[' or '[^' on
class_first(s, off, negated) ==
    IF char(s, off) = "]" \/ char(s, off) = "-"
    THEN class_next_item(s, off, negated, <<Ordinary(char(s, off))>>)
    ELSE parse_class_loop(s, off, negated, <<>>)

\* parse_class from `let negated = ..` on; off is the offset after '['
class_negated(s, off) ==
    IF char(s, off) = "^"
    THEN IF ~next(s, off)
         THEN ClassOut(next_off(s, off), Err, Empty)
         ELSE class_first(s, next_off(s, off), TRUE)
    ELSE class_first(s, off, FALSE)

parse_class(s, off) ==
    IF ~next(s, off)
    THEN ClassOut(next_off(s, off), Err, Empty)
    ELSE class_negated(s, next_off(s, off))

\* parse_repetition wrapping the whole working stack, not its last node
parse_repetition_whole(s, p, st, rep) ==
    LET p1 == [p EXCEPT !.offset = next_off(s, p.offset)] IN
    IF Len(st) = 0
    THEN Outcome(p1, st, Err)
    ELSE Outcome(p1, <<Repetition(rep, reduce(st))>>, Running)

\* parse_repetition taking Empty for the node an empty stack lacks
parse_repetition_of_nothing(s, p, st, rep) ==
    LET p1 == [p EXCEPT !.offset = next_off(s, p.offset)] IN
    IF Len(st) = 0
    THEN Outcome(p1, <<Repetition(rep, Empty)>>, Running)
    ELSE Outcome(p1, Append(Front(st), Repetition(rep, Last(st))), Running)

parse_repetition(s, p, st, rep) ==
    LET p1 == [p EXCEPT !.offset = next_off(s, p.offset)] IN
    IF Len(st) = 0
    THEN Outcome(p1, st, Err)
    ELSE IF Last(st) = Empty
    THEN Outcome(p1, Front(st), Err)
    ELSE Outcome(p1, Append(Front(st), Repetition(rep, Last(st))), Running)

\* what parse_repetition_range yields: the offset it leaves, how it ended,
\* the RepetitionType
RangeOut(off, res, rep) == [off |-> off, res |-> res, rep |-> rep]

\* the ',' arm without the comparison of the two counts
range_second_unchecked(s, first, second) ==
    IF second.panic
    THEN RangeOut(second.off, Panic, ZeroOrOne)
    ELSE IF is_eof(s, second.off) \/ char(s, second.off) # "}"
    THEN RangeOut(second.off, Err, ZeroOrOne)
    ELSE RangeOut(second.off, Running, RepRange(first.num, second.num))

\* the ',' arm after `let second = self.parse_int()?`
range_second(s, first, second) ==
    IF second.panic
    THEN RangeOut(second.off, Panic, ZeroOrOne)
    ELSE IF first.num > second.num
    THEN RangeOut(second.off, Err, ZeroOrOne)
    ELSE IF is_eof(s, second.off) \/ char(s, second.off) # "}"
    THEN RangeOut(second.off, Err, ZeroOrOne)
    ELSE RangeOut(second.off, Running, RepRange(first.num, second.num))

\* the ',' arm after next_strip returned true; off is the offset it left
range_comma(s, first, off, ovf) ==
    IF char(s, off) = "}"
    THEN RangeOut(off, Running, RepLower(first.num))
    ELSE range_second(s, first, parse_int(s, off, ovf))

\* parse_repetition_range after `let first = self.parse_int()`
range_first(s, first, ovf) ==
    IF first.panic
    THEN RangeOut(first.off, Panic, ZeroOrOne)
    ELSE IF is_eof(s, first.off)
    THEN RangeOut(first.off, Err, ZeroOrOne)
    ELSE IF char(s, first.off) = ","
    THEN IF ~next_strip(s, first.off)
         THEN RangeOut(next_strip_off(s, first.off), Err, ZeroOrOne)
         ELSE range_comma(s, first, next_strip_off(s, first.off), ovf)
    ELSE IF char(s, first.off) = "}"
    THEN RangeOut(first.off, Running, RepExact(first.num))
    ELSE RangeOut(first.off, Err, ZeroOrOne)

parse_repetition_range(s, off, ovf) ==
    IF ~next_strip(s, off)
    THEN RangeOut(next_strip_off(s, off), Err, ZeroOrOne)
    ELSE range_first(s, parse_int(s, next_strip_off(s, off), ovf), ovf)

\* what parse_primitive yields
PrimOut(off, res, ast) == [off |-> off, res |-> res, ast |-> ast]

parse_primitive(s, off) ==
    LET c == char(s, off) IN
    IF c = "\\" \/ c = BadSlice
    THEN PrimOut(off, Panic, Empty)
    ELSE PrimOut(next_off(s, off), Running,
                 IF c = "." THEN Wildcard
                 ELSE IF c = "^" THEN Anchor("LineStart")
                 ELSE IF c = "$" THEN Anchor("LineEnd")
                 ELSE Literal(c))

(***************************************************************************)
(* Regex IR and the lowering (src/regex.rs)                                *)
(***************************************************************************)
REmpty == [t |-> "Empty"]
RLiteral(cs) == [t |-> "Literal", input |-> cs]
RClass(negated, items) == [t |-> "Class", negated |-> negated, items |-> items]
RAssert(a) == [t |-> "Assert", anchor |-> a]
RRepetition(rep, r) == [t |-> "Repetition", rep |-> rep, child |-> r]
RConcat(rs) == [t |-> "Concat", items |-> rs]
RAlternation(rs) == [t |-> "Alternation", items |-> rs]

\* 0.into() and char::MAX, the ends of the range Wildcard lowers to
CharMin == "U+0000"
CharMax == "U+10FFFF"

\* the match with ZeroOrMore taken for OneOrMore
lower_repetition_type_plus(rep) ==
    CASE rep.t = "ZeroOrOne" -> RepRange(0, 1)
      [] rep.t = "ZeroOrMore" -> RepLower(1)
      [] rep.t = "OneOrMore" -> RepLower(1)
      [] rep.t = "Exact" -> RepExact(rep.n)
      [] rep.t = "Lower" -> RepLower(rep.n)
      [] rep.t = "Range" -> RepRange(rep.m, rep.n)

\* the match on repetition_type in parse_node
lower_repetition_type(rep) ==
    CASE rep.t = "ZeroOrOne" -> RepRange(0, 1)
      [] rep.t = "ZeroOrMore" -> RepLower(0)
      [] rep.t = "OneOrMore" -> RepLower(1)
      [] rep.t = "Exact" -> RepExact(rep.n)
      [] rep.t = "Lower" -> RepLower(rep.n)
      [] rep.t = "Range" -> RepRange(rep.m, rep.n)

RECURSIVE parse_node(_)
\* regex::ParserVM::parse_node
parse_node(ast) ==
    CASE ast.t = "Empty" -> REmpty
      [] ast.t = "Wildcard" -> RClass(FALSE, <<Range(CharMin, CharMax)>>)
      [] ast.t = "Literal" -> RLiteral(<<ast.c>>)
      [] ast.t = "Class" -> RClass(ast.negated, ast.items)
      [] ast.t = "Anchor" -> RAssert(ast.anchor)
      [] ast.t = "Repetition" ->
            RRepetition(lower_repetition_type(ast.rep), parse_node(ast.child))
      [] ast.t = "Concat" ->
            RConcat([i \in 1..Len(ast.items) |-> parse_node(ast.items[i])])
      [] ast.t = "Alternation" ->
            RAlternation([i \in 1..Len(ast.items) |-> parse_node(ast.items[i])])
      [] ast.t = "Group" -> parse_node(ast.child)

(***************************************************************************)
(* NFA and NFABuilder (src/nfa.rs).  State ids count from 0, as in the     *)
(* source: state id is the (id + 1)-th element of states.                  *)
(***************************************************************************)
ZERO == 0
\* usize::MAX, which no state of a model-sized automaton has as its id
FINAL == -1

\* Transition { next, input }: input None (eps) or Some((start, end))
Transition(to, eps, start, end) == [next |-> to, eps |-> eps, start |-> start, end |-> end]

\* NFA::new
NFANew == [states |-> <<>>, initial |-> ZERO, accepting |-> FINAL]

\* NFA::add_state: the automaton it leaves; the id it returns is last_id
add_state(n) == [n EXCEPT !.states = Append(n.states, <<>>)]
last_id(n) == Len(n.states) - 1

push_transition(n, from, tr) ==
    [n EXCEPT !.states[from + 1] = Append(n.states[from + 1], tr)]

add_epsilon_transition(n, from, to) ==
    push_transition(n, from, Transition(to, TRUE, CharMin, CharMin))

add_char_transition(n, from, to, c) ==
    push_transition(n, from, Transition(to, FALSE, c, c))

add_range_transition(n, from, to, start, end) ==
    push_transition(n, from, Transition(to, FALSE, start, end))

\* a Component together with the automaton the builder has grown so far
Built(n, initial, accepting) == [nfa |-> n, initial |-> initial, accepting |-> accepting]

\* let initial = self.nfa.add_state(); let accepting = self.nfa.add_state();
TwoStates(n) ==
    LET n1 == add_state(n)
        n2 == add_state(n1)
    IN  Built(n2, last_id(n1), last_id(n2))

build_empty(n) ==
    LET b == TwoStates(n) IN
    Built(add_epsilon_transition(b.nfa, b.initial, b.accepting), b.initial, b.accepting)

build_literal(n, cs) ==
    LET b == TwoStates(n) IN
    Built(add_char_transition(b.nfa, b.initial, b.accepting, cs[1]), b.initial, b.accepting)

\* always TRUE: n is a value, so that a loop of the builder computes the
\* automaton one turn leaves before it enters the next turn
IsBuilt(n) == Len(n.states) >= 0

RECURSIVE class_items(_, _, _, _, _)
\* the for loop of build_class, from the i-th item on
class_items(n, initial, accepting, items, i) ==
    IF i > Len(items) \/ ~IsBuilt(n) THEN n
    ELSE class_items(
            IF items[i].t = "Ordinary"
            THEN add_char_transition(n, initial, accepting, items[i].c)
            ELSE add_range_transition(n, initial, accepting, items[i].start, items[i].end),
            initial, accepting, items, i + 1)

\* build_class leaving a negated class without transitions
build_class_negated_is_empty(n, negated, items) ==
    LET b == TwoStates(n) IN
    IF negated
    THEN Built(b.nfa, b.initial, b.accepting)
    ELSE Built(class_items(b.nfa, b.initial, b.accepting, items, 1), b.initial, b.accepting)

build_class(n, negated, items) ==
    LET b == TwoStates(n) IN
    Built(class_items(b.nfa, b.initial, b.accepting, items, 1), b.initial, b.accepting)

build_assert(n, anchor) ==
    LET b == TwoStates(n) IN
    Built(add_epsilon_transition(b.nfa, b.initial, b.accepting), b.initial, b.accepting)

RECURSIVE build_node(_, _)
RECURSIVE chain(_, _, _, _)
RECURSIVE optional_chain(_, _, _, _, _)
RECURSIVE concat_chain(_, _, _, _)
RECURSIVE alternation_loop(_, _, _, _, _)

\* the loop making one copy fewer
chain_one_less(n, r, k, prev) ==
    IF k <= 1 THEN [nfa |-> n, prev |-> prev]
    ELSE LET comp == build_node(n, r) IN
         chain(add_epsilon_transition(comp.nfa, prev, comp.initial), r, k - 1, comp.accepting)

\* for _ in 0..k { comp = build_node(regex); eps(prev, comp.initial);
\* prev = comp.accepting }: the automaton and the prev it leaves
chain(n, r, k, prev) ==
    IF k <= 0 \/ ~IsBuilt(n) THEN [nfa |-> n, prev |-> prev]
    ELSE LET comp == build_node(n, r) IN
         chain(add_epsilon_transition(comp.nfa, prev, comp.initial), r, k - 1, comp.accepting)

\* the for min..max loop of the Range arm, with k iterations left
optional_chain(n, r, k, prev, accepting) ==
    IF k <= 0 \/ ~IsBuilt(n) THEN n
    ELSE LET comp == build_node(n, r)
             n1 == add_epsilon_transition(comp.nfa, prev, comp.initial)
             n2 == add_epsilon_transition(n1, comp.accepting, accepting)
         IN  optional_chain(n2, r, k - 1, comp.accepting, accepting)

build_repetition(n, rep, r) ==
    LET b == TwoStates(n) IN
    CASE rep.t = "Exact" ->
            LET c == chain(b.nfa, r, rep.n, b.initial) IN
            Built(add_epsilon_transition(c.nfa, c.prev, b.accepting), b.initial, b.accepting)
      [] rep.t = "Lower" ->
            LET c == chain(b.nfa, r, rep.n, b.initial)
                comp == build_node(c.nfa, r)
                n1 == add_epsilon_transition(comp.nfa, c.prev, comp.initial)
                n2 == add_epsilon_transition(n1, c.prev, b.accepting)
                n3 == add_epsilon_transition(n2, comp.accepting, comp.initial)
            IN  Built(n3, b.initial, b.accepting)
      [] rep.t = "Range" ->
            LET c == chain(b.nfa, r, rep.m, b.initial)
                n1 == add_epsilon_transition(c.nfa, c.prev, b.accepting)
            IN  Built(optional_chain(n1, r, rep.n - rep.m, c.prev, b.accepting),
                      b.initial, b.accepting)

\* the loop of build_concat without the transition into each element
concat_chain_unlinked(n, rs, i, prev) ==
    IF i > Len(rs) \/ ~IsBuilt(n) THEN [nfa |-> n, prev |-> prev]
    ELSE LET comp == build_node(n, rs[i]) IN
         concat_chain(comp.nfa, rs, i + 1, comp.accepting)

\* the for loop of build_concat, from the i-th element on
concat_chain(n, rs, i, prev) ==
    IF i > Len(rs) \/ ~IsBuilt(n) THEN [nfa |-> n, prev |-> prev]
    ELSE LET comp == build_node(n, rs[i]) IN
         concat_chain(add_epsilon_transition(comp.nfa, prev, comp.initial), rs, i + 1,
                      comp.accepting)

build_concat(n, rs) ==
    LET n1 == add_state(n)
        initial == last_id(n1)
        c == concat_chain(n1, rs, 1, initial)
    IN  Built(c.nfa, initial, c.prev)

\* the loop of build_alternation entering each branch at its exit
alternation_loop_enters_exit(n, rs, i, initial, accepting) ==
    IF i > Len(rs) \/ ~IsBuilt(n) THEN n
    ELSE LET comp == build_node(n, rs[i])
             n1 == add_epsilon_transition(comp.nfa, initial, comp.accepting)
             n2 == add_epsilon_transition(n1, comp.accepting, accepting)
         IN  alternation_loop(n2, rs, i + 1, initial, accepting)

\* the for loop of build_alternation, from the i-th element on
alternation_loop(n, rs, i, initial, accepting) ==
    IF i > Len(rs) \/ ~IsBuilt(n) THEN n
    ELSE LET comp == build_node(n, rs[i])
             n1 == add_epsilon_transition(comp.nfa, initial, comp.initial)
             n2 == add_epsilon_transition(n1, comp.accepting, accepting)
         IN  alternation_loop(n2, rs, i + 1, initial, accepting)

build_alternation(n, rs) ==
    LET b == TwoStates(n) IN
    Built(alternation_loop(b.nfa, rs, 1, b.initial, b.accepting), b.initial, b.accepting)

build_node(n, r) ==
    CASE r.t = "Empty" /\ IsBuilt(n) -> build_empty(n)
      [] r.t = "Literal" /\ IsBuilt(n) -> build_literal(n, r.input)
      [] r.t = "Class" /\ IsBuilt(n) -> build_class(n, r.negated, r.items)
      [] r.t = "Assert" /\ IsBuilt(n) -> build_assert(n, r.anchor)
      [] r.t = "Repetition" /\ IsBuilt(n) -> build_repetition(n, r.rep, r.child)
      [] r.t = "Concat" /\ IsBuilt(n) -> build_concat(n, r.items)
      [] r.t = "Alternation" /\ IsBuilt(n) -> build_alternation(n, r.items)

\* NFABuilder::build
build(n, r) ==
    LET comp == build_node(n, r) IN
    [comp.nfa EXCEPT !.initial = comp.initial, !.accepting = comp.accepting]

\* NFA::from_regex
from_regex(r) == build(NFANew, r)

(***************************************************************************)
(* NFAVM (src/nfa.rs)                                                      *)
(***************************************************************************)
\* NFAVM::new taking over the state the last run ended in
NFAVMNew_keeps_state(n) == [pos |-> 0, state |-> vm.state]

\* NFAVM::new
NFAVMNew(n) == [pos |-> 0, state |-> n.initial]

\* start <= c && c <= end
in_range(c, start, end) == Code(start) <= Code(c) /\ Code(c) <= Code(end)

\* the transition the for loop of NFAVM::step breaks on: its index among the
\* transitions of the current state, 0 when the loop ends with next_state None
first_transition(n, v, inp) ==
    LET trs == n.states[v.state + 1]
        fits(i) == trs[i].eps \/ in_range(inp[v.pos + 1], trs[i].start, trs[i].end)
    IN  IF \E i \in 1..Len(trs) : fits(i)
        THEN CHOOSE i \in 1..Len(trs) : fits(i) /\ \A j \in 1..(i - 1) : ~fits(j)
        ELSE 0

\* the NFAVM a successful NFAVM::step leaves
step(n, v, inp) ==
    [pos |-> v.pos + 1, state |-> n.states[v.state + 1][first_transition(n, v, inp)].next]

(***************************************************************************)
(* The patterns and inputs of the model.                                   *)
(***************************************************************************)
MaxPatternLen == 3
MaxClassLen == 5
MaxRangeLen == 4
MaxPipelineLen == 3
MaxInputLen == 3
MaxCalls == 2
MaxCount == 2
MaxReuseLen == 2
MaxBuildLen == 10
MaxSpaces == 1
MaxRuns == 2

\* the sequences over A of length at most n
Strings(A, n) == UNION {[1..k -> A] : k \in 0..n}

\* the patterns of the specification, the tests and the driver, and others
\* longer than the enumerated ones
Examples == {
    <<"b", "a", "{", "3", "}", "*">>, <<"b", "a", "+", "?">>,
    <<"a">>, <<"a", "b">>, <<"a", "+">>, <<"a", "*">>, <<"a", "?">>,
    <<"a", "{", "1", ",", "}", "b">>,
    <<"a", "{", "3", "}", "*">>,
    <<"a", "{", "1", ",", "2", "}">>,
    <<"a", "{", "3", ",", "1", "}">>,
    <<"l", "o", "t", "s", "{", " ", "4", " ", ",", " ", "8", " ", "}", "o", "f", " ", "m", "s">>,
    <<"l", "o", "t", "s", "{", "4", ",", "8", "}", "o", "f", " ", "m", "s">>,
    <<"[", "a", "b", "c", "]">>,
    <<"[", "A", "-", "z", "]">>,
    <<"[", "^", "a", "-", "z", "0", "-", "9", " ", "]">>,
    <<"[", "z", "-", "a", "]">>, <<"[", "a", "-", "a", "]">>, <<"[", "^", "a", "]">>,
    <<"a", "|", "b">>, <<"a", "|", "b", "|", "c", "d">>,
    <<"(">>, <<"*", "a">>, <<"a", "|">>, <<"(", "a", "|">>,
    <<"(", "a">>, <<"(", "a", "|", "b">>, <<"a", "|", "b", ")">>,
    <<"(", "a", "|", "b", ")", "(", "c", "|", "d", ")">>,
    <<"(", "a", "|", "b", ")", "(", "c", ")">>,
    <<"(", ")", "*">>, <<"(", ")", "{", "2", "}">>,
    <<"x", "{", "}">>, <<"x", "{", ",", "2", "}">>, <<"x", "{", ",", "}">>,
    <<"a", "{", "4", "2", "9", "4", "9", "6", "7", "2", "9", "6", "}">>,
    <<"a", "{", "1", ",", "2", "}", "(", "f", "o", "o", "|", "b", "a", "z", ")",
      "[", "a", "c", "-", "z", "]", "*">>,
    <<"f", "o", "o", "(", "b", "a", "z", ")", ".", "*", "(", "b", "a", "z", "|", "b", ")", "?">>,
    <<".">>, <<"(", ".", ")", "?">>, <<"(", ".", "|", "a", ")", "b">>,
    <<"(", "a", "b", ")", "{", "2", "}">>,
    <<"(", "a", "|", "b", ")", "{", "1", ",", "2", "}">>,
    <<"{", "4", "2", "9", "4", "9", "6", "7", "2", "9", "6", "}">>,
    <<"a", "{", "4", "2", "9", "4", "9", "6", "7", "2", "9", "7", ",", "1", "}">>,
    <<"(", "*">>, <<"a", "|", "*">>, <<"(", "a", ")", "(", "+">>,
    <<"[", "^", "a", "]", "b">>,
    <<"eacute", "a">>, <<"^", "a", "$">>, <<"\\", "a">>, <<"[", "[", "a">>
}

\* the scalar values ParserVM::parse dispatches on
Metacharacters == {"(", ")", "|", "[", "?", "*", "+", "{", ".", "^", "$", "\\"}

GroupAlphabet == {"a", "b", "eacute", "(", ")", "|", "*", "+", ".", "}", "\\"}
ClassAlphabet == {"a", "b", "[", "]", "^", "-"}
RangeAlphabet == {"a", "{", "}", ",", "1", " "}
PipelineAlphabet == {"a", "b", "|", "*", "+", "(", ")"}
ReuseAlphabet == {"a", "(", ")", "|", "*"}
InputAlphabet == {"a", "b"}

\* the patterns that open a bracket expression, MaxClassLen scalar values at most
ClassPatterns == {<<"[">> \o s : s \in Strings(ClassAlphabet, MaxClassLen - 1)}
\* k whitespace scalar values
Spaces(k) == [i \in 1..k |-> " "]
\* the counts written in the braces: one digit, two digits, two digits apart
Counts == {<<"1">>, <<"2">>, <<"1", "2">>, <<"1", " ", "2">>}
\* a{m}, a{m,} and a{m,n} with up to MaxSpaces whitespace scalar values after
\* '{', after each count and after ',', alone or followed by " a"
SpacedPatterns ==
    UNION {{<<"a", "{">> \o Spaces(g[1]) \o m \o Spaces(g[2]) \o <<"}">> \o tl,
            <<"a", "{">> \o Spaces(g[1]) \o m \o Spaces(g[2]) \o <<",">> \o Spaces(g[3])
                \o <<"}">> \o tl,
            <<"a", "{">> \o Spaces(g[1]) \o m \o Spaces(g[2]) \o <<",">> \o Spaces(g[3])
                \o n \o Spaces(g[4]) \o <<"}">> \o tl} :
           g \in [1..4 -> 0..MaxSpaces], m \in Counts, n \in Counts,
           tl \in {<<>>, <<" ", "a">>}}
ParserPatterns ==
    Examples \cup Strings(GroupAlphabet, MaxPatternLen)
             \cup ClassPatterns
             \cup SpacedPatterns
             \cup Strings(RangeAlphabet, MaxRangeLen)
\* x{m}, x{m,} and x{m,n} for a literal x and counts up to MaxCount
BoundedPatterns ==
    UNION {{<<x, "{", Digits[m + 1], "}">>,
            <<x, "{", Digits[m + 1], ",", "}">>} \cup
           {<<x, "{", Digits[m + 1], ",", Digits[n + 1], "}">> : n \in 0..MaxCount} :
           x \in InputAlphabet, m \in 0..MaxCount}
\* the automaton is built for the patterns of at most MaxBuildLen scalar values
PipelinePatterns ==
    {p \in Examples : Len(p) <= MaxBuildLen} \cup BoundedPatterns \cup Strings(PipelineAlphabet, MaxPipelineLen)
ReusePatterns == Examples \cup Strings(ReuseAlphabet, MaxReuseLen)
Inputs == Strings(InputAlphabet, MaxInputLen)

\* what overflow of u32 arithmetic does: overflow checks on, or off
OverflowModes == {"panic", "wrap"}

(***************************************************************************)
(* State machine.                                                          *)
(***************************************************************************)
InitWith(P) ==
    /\ pattern \in P
    /\ parser = ParserNew
    /\ stack = <<>>
    /\ pc = "start"
    /\ result = Running
    /\ calls = 0
    /\ regex = REmpty
    /\ nfa = NFANew
    /\ input = <<>>
    /\ vm = [pos |-> 0, state |-> ZERO]
    /\ verdict = FALSE
    /\ verdicts = <<>>

Init == InitWith(PipelinePatterns)
InitParser == InitWith(ParserPatterns)
InitReuse == InitWith(ReusePatterns)

pipeline_vars == <<regex, nfa, input, vm, verdict, verdicts>>

\* ParserVM::parse up to its loop: self.parser.reset(); let mut stack = vec![];
ParseBegin ==
    /\ pc = "start"
    /\ parser' = reset(parser)
    /\ stack' = <<>>
    /\ pc' = "parsing"
    /\ calls' = calls + 1
    /\ UNCHANGED <<pattern, result, pipeline_vars>>

InLoop == pc = "parsing" /\ ~is_eof(pattern, parser.offset)
Cur == char(pattern, parser.offset)

\* the handler ended with o: the loop goes on, or ParserVM::parse returns
Return(o) ==
    /\ parser' = o.parser
    /\ IF o.res = Running
       THEN stack' = o.stack /\ pc' = pc /\ result' = result
       ELSE stack' = <<>> /\ pc' = "parsed" /\ result' = o.res
    /\ UNCHANGED <<pattern, calls, pipeline_vars>>

StartGroup == InLoop /\ Cur = "(" /\ Return(start_group(pattern, parser, stack))

EndGroup == InLoop /\ Cur = ")" /\ Return(end_group(pattern, parser, stack))

ParseAlternate == InLoop /\ Cur = "|" /\ Return(parse_alternate(pattern, parser, stack))

\* stack.push(x?) for what parse_class or parse_primitive yields
Push(p, st, c) ==
    Outcome([p EXCEPT !.offset = c.off],
            IF c.res = Running THEN Append(st, c.ast) ELSE st, c.res)

\* the '{' arm of the match: parse_repetition on what parse_repetition_range
\* yields, unless that returned early
Repeat(s, p, st, r) ==
    IF r.res = Running
    THEN parse_repetition(s, [p EXCEPT !.offset = r.off], st, r.rep)
    ELSE Outcome([p EXCEPT !.offset = r.off], st, r.res)

ParseClass ==
    /\ InLoop /\ Cur = "["
    /\ Return(Push(parser, stack, parse_class(pattern, parser.offset)))

ParseRepetition ==
    /\ InLoop /\ Cur \in {"?", "*", "+"}
    /\ Return(parse_repetition(pattern, parser, stack,
                               CASE Cur = "?" -> ZeroOrOne
                                 [] Cur = "*" -> ZeroOrMore
                                 [] Cur = "+" -> OneOrMore))

ParseRepetitionRange ==
    /\ InLoop /\ Cur = "{"
    /\ \E ovf \in OverflowModes :
         Return(Repeat(pattern, parser, stack,
                       parse_repetition_range(pattern, parser.offset, ovf)))

ParsePrimitive ==
    /\ InLoop /\ Cur \notin {"(", ")", "|", "[", "?", "*", "+", "{"}
    /\ Return(Push(parser, stack, parse_primitive(pattern, parser.offset)))

FinishParse ==
    /\ pc = "parsing" /\ is_eof(pattern, parser.offset)
    /\ Return(finish_parse(pattern, parser, stack))

\* the loop of ast::ParserVM::parse and its match on self.char()
ParserNext ==
    \/ ParseBegin
    \/ StartGroup
    \/ EndGroup
    \/ ParseAlternate
    \/ ParseClass
    \/ ParseRepetition
    \/ ParseRepetitionRange
    \/ ParsePrimitive
    \/ FinishParse

\* main.rs parse: regex::Parser::new().parse(&ast), reached when
\* parser.parse(pattern)? did not return early
Lower ==
    /\ pc = "parsed" /\ result.kind = "Ok"
    /\ regex' = parse_node(result.ast)
    /\ pc' = "lowered"
    /\ UNCHANGED <<pattern, parser, stack, result, calls, nfa, input, vm, verdict, verdicts>>

\* NFA::from_regex(&regex)
Build ==
    /\ pc = "lowered"
    /\ nfa' = from_regex(regex)
    /\ pc' = "built"
    /\ UNCHANGED <<pattern, parser, stack, result, calls, regex, input, vm, verdict, verdicts>>

\* NFAVM::new(&nfa, input)
NewVM ==
    /\ pc = "built"
    /\ \E inp \in Inputs :
         /\ input' = inp
         /\ vm' = NFAVMNew(nfa)
    /\ pc' = "running"
    /\ UNCHANGED <<pattern, parser, stack, result, calls, regex, nfa, verdict, verdicts>>

\* NFAVM::run: one turn of the loop in which step returns true
RunStep ==
    /\ pc = "running" /\ vm.pos < Len(input)
    /\ first_transition(nfa, vm, input) # 0
    /\ vm' = step(nfa, vm, input)
    /\ UNCHANGED <<pattern, parser, stack, pc, result, calls, regex, nfa, input, verdict, verdicts>>

\* NFAVM::run: step returns false, run returns false
RunFalse ==
    /\ pc = "running" /\ vm.pos < Len(input)
    /\ first_transition(nfa, vm, input) = 0
    /\ verdict' = FALSE
    /\ verdicts' = Append(verdicts, FALSE)
    /\ pc' = "done"
    /\ UNCHANGED <<pattern, parser, stack, result, calls, regex, nfa, input, vm>>

\* NFAVM::run: the loop ends, run returns true
RunTrue ==
    /\ pc = "running" /\ vm.pos >= Len(input)
    /\ verdict' = TRUE
    /\ verdicts' = Append(verdicts, TRUE)
    /\ pc' = "done"
    /\ UNCHANGED <<pattern, parser, stack, result, calls, regex, nfa, input, vm>>

\* another NFAVM::new(&nfa, input) and run on the same NFA and input
RunAgain ==
    /\ pc = "done" /\ Len(verdicts) < MaxRuns
    /\ vm' = NFAVMNew(nfa)
    /\ pc' = "running"
    /\ UNCHANGED <<pattern, parser, stack, result, calls, regex, nfa, input, verdict, verdicts>>

PipelineNext == Lower \/ Build \/ NewVM \/ RunStep \/ RunFalse \/ RunTrue \/ RunAgain

\* another Parser::parse call on the same Parser object
ParseAgain ==
    /\ pc = "parsed" /\ result.kind \in {"Ok", "Err"}
    /\ calls < MaxCalls
    /\ \E p \in ReusePatterns : pattern' = p
    /\ pc' = "start"
    /\ result' = Running
    /\ UNCHANGED <<parser, stack, calls, pipeline_vars>>

Next == ParserNext \/ PipelineNext
NextParser == ParserNext
NextReuse == ParserNext \/ ParseAgain

\* the driver: one pattern, a new Parser, the whole pipeline
Spec == Init /\ [][Next]_vars
\* Parser::parse on a new Parser
SpecParser == InitParser /\ [][NextParser]_vars
\* a Parser object used for several patterns
SpecReuse == InitReuse /\ [][NextReuse]_vars

(***************************************************************************)
(* Parser::parse as a function: the result of a whole call on the Parser   *)
(* object p, with the build's overflow behaviour ovf.                      *)
(***************************************************************************)
\* the match on self.char() in ParserVM::parse
handle(s, p, st, ovf) ==
    CASE char(s, p.offset) = "(" -> start_group(s, p, st)
      [] char(s, p.offset) = ")" -> end_group(s, p, st)
      [] char(s, p.offset) = "|" -> parse_alternate(s, p, st)
      [] char(s, p.offset) = "[" -> Push(p, st, parse_class(s, p.offset))
      [] char(s, p.offset) = "?" -> parse_repetition(s, p, st, ZeroOrOne)
      [] char(s, p.offset) = "*" -> parse_repetition(s, p, st, ZeroOrMore)
      [] char(s, p.offset) = "+" -> parse_repetition(s, p, st, OneOrMore)
      [] char(s, p.offset) = "{" ->
            Repeat(s, p, st, parse_repetition_range(s, p.offset, ovf))
      [] OTHER -> Push(p, st, parse_primitive(s, p.offset))

RECURSIVE parse_loop(_, _, _)
\* the while loop of ParserVM::parse, from the outcome o of the last handler
parse_loop(s, o, ovf) ==
    IF o.res # Running THEN o
    ELSE IF is_eof(s, o.parser.offset) THEN finish_parse(s, o.parser, o.stack)
    ELSE parse_loop(s, handle(s, o.parser, o.stack, ovf), ovf)

\* ParserVM::parse
parse(s, p, ovf) == parse_loop(s, Outcome(reset(p), <<>>, Running), ovf)

\* what Parser::new().parse(s) can return
parse_new(s) == {parse(s, ParserNew, ovf).res : ovf \in OverflowModes}

(***************************************************************************)
(* What an automaton accepts: the paths from initial to accepting whose    *)
(* character-range transitions each contain the next input symbol and      *)
(* whose epsilon transitions consume none.                                 *)
(***************************************************************************)
Transitions(n, q) == {n.states[q + 1][i] : i \in 1..Len(n.states[q + 1])}

RECURSIVE EpsilonClosure(_, _)
EpsilonClosure(n, Q) ==
    LET R == Q \cup {tr.next : tr \in {x \in UNION {Transitions(n, q) : q \in Q} : x.eps}}
    IN  IF R = Q THEN Q ELSE EpsilonClosure(n, R)

Move(n, Q, c) ==
    {tr.next : tr \in {x \in UNION {Transitions(n, q) : q \in Q} :
                          ~x.eps /\ in_range(c, x.start, x.end)}}

RECURSIVE Active(_, _, _)
\* the states some path from initial reaches on the first i symbols of w
Active(n, w, i) ==
    IF i = 0 THEN EpsilonClosure(n, {n.initial})
    ELSE EpsilonClosure(n, Move(n, Active(n, w, i - 1), w[i]))

Accepts(n, w) == n.accepting \in Active(n, w, Len(w))

\* k copies of the scalar value x
Copies(x, k) == [i \in 1..k |-> x]

RECURSIVE InPower(_, _, _)
\* w is a concatenation of k strings the automaton of r accepts
InPower(w, r, k) ==
    IF k = 0 THEN w = <<>>
    ELSE \E i \in 0..Len(w) :
            /\ Accepts(from_regex(r), SubSeq(w, 1, i))
            /\ InPower(SubSeq(w, i + 1, Len(w)), r, k - 1)

\* w is a concatenation of k strings of r for some k >= n (more than
\* Len(w) strings add only empty ones)
InPowerAtLeast(w, r, n) ==
    \E k \in n..(IF Len(w) > n THEN Len(w) ELSE n) : InPower(w, r, k)

(***************************************************************************)
(* Claims                                                                  *)
(***************************************************************************)

\* C1: NFAVM::run returns true iff some path from the initial state to the
\* accepting state consumes exactly the input (the accepting state is in the
\* active set once every symbol is consumed), and false otherwise.
C1_RunIsPathAcceptance ==
    pc = "done" => (verdict <=> Accepts(nfa, input))

\* the pattern is x{m,n} for a literal x and one-digit counts m and n
IsBoundedRange(s) ==
    /\ Len(s) = 6
    /\ s[1] \notin Metacharacters
    /\ s[2] = "{" /\ is_digit(s[3]) /\ s[4] = "," /\ is_digit(s[5]) /\ s[6] = "}"
    /\ to_digit(s[3]) <= to_digit(s[5])

\* C2: for a pattern x{m,n}, parse, lowering, from_regex and the matcher
\* return true exactly for the inputs that are k copies of x, m <= k <= n.
C2_BoundedRoundTrip ==
    (pc = "done" /\ IsBoundedRange(pattern)) =>
        (verdict <=> \E k \in to_digit(pattern[3])..to_digit(pattern[5]) :
                        input = Copies(pattern[1], k))

\* C3: the automaton built for Repetition(Lower(n), r) accepts exactly the
\* concatenations of k strings of r with k >= n.
C3_LowerAcceptsAtLeastN ==
    (pc = "built" /\ regex.t = "Repetition" /\ regex.rep.t = "Lower") =>
        \A w \in Inputs : Accepts(nfa, w) <=> InPowerAtLeast(w, regex.child, regex.rep.n)

\* the scalar values of s
Chars(s) == {s[i] : i \in 1..Len(s)}

\* s uses none of the syntax the parser leaves unimplemented: no escape and
\* no '[' that could stand inside a bracket expression
Implemented(s) == "\\" \notin Chars(s) /\ Cardinality({i \in 1..Len(s) : s[i] = "["}) <= 1

\* C4: Parser::parse never panics: it returns Ok or Err for every pattern
\* (here: every pattern within the implemented syntax), and Err for "(",
\* "a{3,1}", "[z-a]", "*a" and for every pattern that ends right after '('
\* or '|'.
C4_ParseNeverPanics ==
    (pc = "parsed" /\ Implemented(pattern)) =>
        /\ result.kind \in {"Ok", "Err"}
        /\ pattern \in {<<"(">>, <<"a", "{", "3", ",", "1", "}">>,
                        <<"[", "z", "-", "a", "]">>, <<"*", "a">>}
              => result.kind = "Err"
        /\ (Len(pattern) > 0 /\ Last(pattern) \in {"(", "|"}) => result.kind = "Err"

RECURSIVE Unbalanced(_, _, _)
\* from the i-th scalar value on, with depth groups open, some ')' has no
\* '(' before it or some '(' is never closed
Unbalanced(s, i, depth) ==
    IF i > Len(s) THEN depth > 0
    ELSE IF s[i] = "(" THEN Unbalanced(s, i + 1, depth + 1)
    ELSE IF s[i] = ")" THEN depth = 0 \/ Unbalanced(s, i + 1, depth - 1)
    ELSE Unbalanced(s, i + 1, depth)

\* C5: Parser::parse never returns Ok for a pattern whose parentheses are
\* unbalanced (patterns without bracket expressions, where every parenthesis
\* is a group delimiter).
C5_UnbalancedNeverOk ==
    (pc = "parsed" /\ "[" \notin Chars(pattern) /\ Unbalanced(pattern, 1, 0)) =>
        result.kind # "Ok"

\* C6: a Parser::parse call on a Parser object that has parsed other patterns
\* before returns what the call returns on a new Parser.
C6_NoSharedState ==
    pc = "parsed" => result \in parse_new(pattern)

\* C7: a pattern without metacharacters parses to Empty, to one Literal, or
\* to the Concat of the Literal nodes of its scalar values in order.
C7_LiteralString ==
    (pc = "parsed" /\ Chars(pattern) \cap Metacharacters = {}) =>
        result = Ok(IF Len(pattern) = 0 THEN Empty
                    ELSE IF Len(pattern) = 1 THEN Literal(pattern[1])
                    ELSE Concat([i \in 1..Len(pattern) |-> Literal(pattern[i])]))

C7_Witness ==
    /\ pc = "parsed" /\ result.kind = "Ok"
    /\ Chars(pattern) \cap Metacharacters = {}
    /\ Len(pattern) >= 2 /\ "eacute" \in Chars(pattern)

RECURSIVE Segments(_, _, _)
\* the pieces of s between its '|', from the i-th scalar value on; cur is the
\* piece begun so far
Segments(s, i, cur) ==
    IF i > Len(s) THEN <<cur>>
    ELSE IF s[i] = "|" THEN <<cur>> \o Segments(s, i + 1, <<>>)
    ELSE Segments(s, i + 1, Append(cur, s[i]))

\* x alone parses to one AST, whatever the build
ParsesAlone(x) == Cardinality(parse_new(x)) = 1 /\ \A r \in parse_new(x) : r.kind = "Ok"
AstAlone(x) == (CHOOSE r \in parse_new(x) : TRUE).ast

\* s is x1|x2|...|xk, k >= 2, no parentheses, not ending in '|', each xi a
\* pattern of its own
IsAlternatives(s) ==
    /\ "|" \in Chars(s) /\ "(" \notin Chars(s) /\ ")" \notin Chars(s)
    /\ Last(s) # "|"
    /\ \A i \in 1..Len(Segments(s, 1, <<>>)) : ParsesAlone(Segments(s, 1, <<>>)[i])

\* C8: x1|x2|...|xk parses to one Alternation node whose k alternatives are
\* the ASTs of x1..xk in order.
C8_FlatAlternation ==
    (pc = "parsed" /\ Len(pattern) > 0 /\ IsAlternatives(pattern)) =>
        result = Ok(Alternation([i \in 1..Len(Segments(pattern, 1, <<>>)) |->
                                    AstAlone(Segments(pattern, 1, <<>>)[i])]))

C8_Witness ==
    /\ pc = "parsed" /\ Len(pattern) > 0 /\ IsAlternatives(pattern)
    /\ Len(Segments(pattern, 1, <<>>)) >= 3
    /\ result.kind = "Ok" /\ result.ast.t = "Alternation"
    /\ \E i \in 1..Len(result.ast.items) : result.ast.items[i].t = "Concat"

\* a step of ParserVM::parse on a repetition operator after which the loop
\* goes on
RepetitionStep ==
    /\ pc = "parsing" /\ ~is_eof(pattern, parser.offset)
    /\ char(pattern, parser.offset) \in {"?", "*", "+", "{"}
    /\ pc' = "parsing"

\* the RepetitionType a repetition operator stands for
OperatorType(c, rep) ==
    CASE c = "?" -> rep = ZeroOrOne
      [] c = "*" -> rep = ZeroOrMore
      [] c = "+" -> rep = OneOrMore
      [] c = "{" -> rep.t \in {"Exact", "Lower", "Range"}

\* C9: a repetition operator replaces the last node of the working stack by
\* a Repetition of that node and changes no other node of the stack and no
\* frame of group_stack; consecutive operators nest (a{3}*, a+, a{1,}b).
C9_RepetitionWrapsLast ==
    /\ [][RepetitionStep =>
            /\ Len(stack) >= 1 /\ Len(stack') = Len(stack)
            /\ Front(stack') = Front(stack)
            /\ Last(stack').t = "Repetition"
            /\ Last(stack').child = Last(stack)
            /\ OperatorType(char(pattern, parser.offset), Last(stack').rep)
            /\ parser'.group_stack = parser.group_stack]_vars
    /\ [](pc = "parsed" =>
            /\ pattern = <<"a", "{", "3", "}", "*">> =>
                 result = Ok(Repetition(ZeroOrMore, Repetition(RepExact(3), Literal("a"))))
            /\ pattern = <<"a", "+">> => result = Ok(Repetition(OneOrMore, Literal("a")))
            /\ pattern = <<"a", "{", "1", ",", "}", "b">> =>
                 result = Ok(Concat(<<Repetition(RepLower(1), Literal("a")), Literal("b")>>)))

C9_Witness ==
    /\ pc = "parsing" /\ Len(stack) = 2
    /\ stack[2].t = "Repetition" /\ stack[2].child.t = "Repetition"

\* s is one bracket expression: '[', an optional '^', a body without '['
\* whose only ']' may be its first scalar value, and ']'
ClassBody(s) == SubSeq(s, IF s[2] = "^" THEN 3 ELSE 2, Len(s) - 1)
IsBracket(s) ==
    /\ Len(s) >= 3 /\ s[1] = "[" /\ Last(s) = "]"
    /\ Len(ClassBody(s)) >= 1
    /\ \A i \in 1..Len(ClassBody(s)) :
          ClassBody(s)[i] # "[" /\ (ClassBody(s)[i] = "]" => i = 1)

RECURSIVE BodyItems(_, _)
\* the items of the body b from its i-th scalar value on: x-y is a range, any
\* other scalar value, and a first ']' or '-', is an ordinary character
BodyItems(b, i) ==
    IF i > Len(b) THEN <<>>
    ELSE IF i = 1 /\ b[1] \in {"]", "-"} THEN <<Ordinary(b[1])>> \o BodyItems(b, 2)
    ELSE IF i + 2 <= Len(b) /\ b[i + 1] = "-"
         THEN <<Range(b[i], b[i + 2])>> \o BodyItems(b, i + 3)
    ELSE <<Ordinary(b[i])>> \o BodyItems(b, i + 1)

\* C10: when parse returns Ok for a bracket expression without a nested '[',
\* it returns a Class node, negated exactly when '^' follows '[', whose items
\* are the ordinary characters and ranges in pattern order ([abc], [A-z],
\* [^a-z0-9 ]).
C10_ClassItems ==
    (pc = "parsed" /\ IsBracket(pattern)) =>
        /\ result.kind = "Ok" =>
             result.ast = Class(pattern[2] = "^", BodyItems(ClassBody(pattern), 1))
        /\ pattern = <<"[", "a", "b", "c", "]">> =>
             result = Ok(Class(FALSE, <<Ordinary("a"), Ordinary("b"), Ordinary("c")>>))
        /\ pattern = <<"[", "A", "-", "z", "]">> =>
             result = Ok(Class(FALSE, <<Range("A", "z")>>))
        /\ pattern = <<"[", "^", "a", "-", "z", "0", "-", "9", " ", "]">> =>
             result = Ok(Class(TRUE, <<Range("a", "z"), Range("0", "9"), Ordinary(" ")>>))

C10_Witness ==
    /\ pc = "parsed" /\ IsBracket(pattern) /\ result.kind = "Ok"
    /\ result.ast.negated /\ Len(result.ast.items) >= 2
    /\ \E i \in 1..Len(result.ast.items) : result.ast.items[i].t = "Range"

RECURSIVE Unspaced(_, _, _)
\* s from its i-th scalar value on without the whitespace that stands between
\* a '{' and the next '}'; inside tells whether a '{' is open
Unspaced(s, i, inside) ==
    IF i > Len(s) THEN <<>>
    ELSE IF inside /\ is_whitespace(s[i]) THEN Unspaced(s, i + 1, inside)
    ELSE <<s[i]>> \o Unspaced(s, i + 1, (inside \/ s[i] = "{") /\ s[i] # "}")

\* a step of the loop of ParserVM::parse on a whitespace scalar value, which
\* is one outside the braces: the range handler consumes those inside
WhitespaceStep ==
    /\ pc = "parsing" /\ ~is_eof(pattern, parser.offset)
    /\ is_whitespace(char(pattern, parser.offset))

\* C11: whitespace inside the braces of a bounded repetition is skipped: the
\* pattern parses to what the pattern without that whitespace parses to
\* (patterns without bracket expressions, where every '{' is an operator);
\* whitespace outside the braces is pushed as a Literal.
C11_WhitespaceInBraces ==
    /\ [][WhitespaceStep =>
            stack' = Append(stack, Literal(char(pattern, parser.offset)))]_vars
    /\ [](pc = "parsed" =>
            /\ "[" \notin Chars(pattern) => result \in parse_new(Unspaced(pattern, 1, FALSE))
            /\ pattern = <<"l", "o", "t", "s", "{", " ", "4", " ", ",", " ", "8", " ", "}",
                           "o", "f", " ", "m", "s">> =>
                 result = Ok(Concat(<<Literal("l"), Literal("o"), Literal("t"),
                                      Repetition(RepRange(4, 8), Literal("s")),
                                      Literal("o"), Literal("f"), Literal(" "),
                                      Literal("m"), Literal("s")>>)))

C11_Witness ==
    /\ pc = "parsed" /\ result.kind = "Ok" /\ result.ast.t = "Concat"
    /\ Len(Unspaced(pattern, 1, FALSE)) + 3 <= Len(pattern)
    /\ result.ast.items[1].t = "Repetition" /\ result.ast.items[1].rep.t = "Range"
    /\ result.ast.items[2] = Literal(" ")

RECURSIVE NoGroupNoWildcard(_)
\* r is built from the seven variants of Regex only
NoGroupNoWildcard(r) ==
    /\ r.t \in {"Empty", "Literal", "Class", "Assert", "Repetition", "Concat", "Alternation"}
    /\ r.t = "Repetition" => NoGroupNoWildcard(r.child)
    /\ r.t \in {"Concat", "Alternation"} =>
          \A i \in 1..Len(r.items) : NoGroupNoWildcard(r.items[i])

\* the universal class: not negated, one range from U+0000 to U+10FFFF
IsUniversalClass(r) ==
    /\ r.t = "Class" /\ ~r.negated /\ Len(r.items) = 1
    /\ r.items[1].t = "Range"
    /\ Code(r.items[1].start) = 0 /\ Code(r.items[1].end) = 1114111

\* the Regex repetition type rep stands for the AST repetition type a
RepetitionLowered(a, rep) ==
    CASE a.t = "ZeroOrOne" -> rep.t = "Range" /\ rep.m = 0 /\ rep.n = 1
      [] a.t = "ZeroOrMore" -> rep.t = "Lower" /\ rep.n = 0
      [] a.t = "OneOrMore" -> rep.t = "Lower" /\ rep.n = 1
      [] OTHER -> rep = a

RECURSIVE Lowered(_, _)
\* r is the rewrite of ast
Lowered(ast, r) ==
    CASE ast.t = "Group" -> Lowered(ast.child, r)
      [] ast.t = "Wildcard" -> IsUniversalClass(r)
      [] ast.t = "Empty" -> r.t = "Empty"
      [] ast.t = "Literal" -> r.t = "Literal" /\ r.input = <<ast.c>>
      [] ast.t = "Class" -> r.t = "Class" /\ r.negated = ast.negated /\ r.items = ast.items
      [] ast.t = "Anchor" -> r.t = "Assert" /\ r.anchor = ast.anchor
      [] ast.t = "Repetition" ->
            /\ r.t = "Repetition" /\ RepetitionLowered(ast.rep, r.rep)
            /\ Lowered(ast.child, r.child)
      [] ast.t \in {"Concat", "Alternation"} ->
            /\ r.t = ast.t /\ Len(r.items) = Len(ast.items)
            /\ \A i \in 1..Len(ast.items) : Lowered(ast.items[i], r.items[i])

\* C12: the Regex that regex::Parser::parse returns for the AST of a pattern
\* holds no Group and no Wildcard and is the rewrite of the AST: Group(x) as
\* x, Wildcard as the universal class, ZeroOrOne as Range(0,1), ZeroOrMore as
\* Lower(0), OneOrMore as Lower(1), Exact, Lower and Range with their bounds,
\* Concat and Alternation element by element in order.
C12_LoweringRewrites ==
    pc = "lowered" => NoGroupNoWildcard(regex) /\ Lowered(result.ast, regex)

C12_Witness ==
    /\ pc = "lowered" /\ result.ast.t = "Repetition" /\ result.ast.rep = ZeroOrOne
    /\ result.ast.child.t = "Group" /\ result.ast.child.child.t = "Wildcard"
    /\ regex.rep = RepRange(0, 1) /\ regex.child.t = "Class"

\* C13: a run of the matcher leaves the NFA as NFA::from_regex returned it,
\* and the runs on one NFA with one input all return the same verdict.
C13_RunDeterministic ==
    /\ pc \in {"running", "done"} => nfa = from_regex(regex)
    /\ \A i, j \in 1..Len(verdicts) : verdicts[i] = verdicts[j]

C13_Witness ==
    /\ pc = "done" /\ Len(verdicts) >= 2 /\ Len(input) >= 2
    /\ ~verdicts[1] /\ ~verdicts[2]
    /\ vm.pos >= 1

\* C14: a group that follows a closed group holding an alternation is
\* concatenated with it: (a|b)(c) and (a|b)(c|d) parse to a Concat of the
\* Alternation of a and b and the content of the second group; nothing of the
\* second group is appended to the first group's Alternation.
C14_GroupAfterGroup ==
    /\ (pc = "parsed" /\ pattern = <<"(", "a", "|", "b", ")", "(", "c", ")">>) =>
          /\ result.kind = "Ok" /\ result.ast.t = "Concat" /\ Len(result.ast.items) = 2
          /\ result.ast.items[1] = Alternation(<<Literal("a"), Literal("b")>>)
          /\ result.ast.items[2] \in {Group(Literal("c")), Literal("c")}
    /\ (pc = "parsed" /\ pattern = <<"(", "a", "|", "b", ")", "(", "c", "|", "d", ")">>) =>
          /\ result.kind = "Ok" /\ result.ast.t = "Concat" /\ Len(result.ast.items) = 2
          /\ result.ast.items[1] = Alternation(<<Literal("a"), Literal("b")>>)
          /\ result.ast.items[2] \in {Alternation(<<Literal("c"), Literal("d")>>),
                                       Group(Alternation(<<Literal("c"), Literal("d")>>))}

\* u32::MAX in decimal
U32MaxDigits == <<"4", "2", "9", "4", "9", "6", "7", "2", "9", "5">>

RECURSIVE DigitsGreater(_, _, _)
\* of two digit strings of one length, a is the greater from the i-th digit on
DigitsGreater(a, b, i) ==
    IF i > Len(a) THEN FALSE
    ELSE IF a[i] = b[i] THEN DigitsGreater(a, b, i + 1)
    ELSE to_digit(a[i]) > to_digit(b[i])

\* the decimal ds, without leading zero, is greater than u32::MAX
ExceedsU32(ds) ==
    /\ Len(ds) >= 10 /\ ds[1] # "0"
    /\ Len(ds) > 10 \/ DigitsGreater(ds, U32MaxDigits, 1)

\* s is x{ds} for a literal x and a decimal ds greater than u32::MAX
IsHugeExact(s) ==
    /\ Len(s) >= 4 /\ s[1] \notin Metacharacters /\ s[2] = "{" /\ Last(s) = "}"
    /\ \A i \in 3..(Len(s) - 1) : is_digit(s[i])
    /\ ExceedsU32(SubSeq(s, 3, Len(s) - 1))

\* C15: a bounded repetition whose count does not fit in 32 unsigned bits
\* (a{4294967296}) makes parse return Err: no wrapped count and no panic.
C15_HugeCountIsErr ==
    (pc = "parsed" /\ IsHugeExact(pattern)) => result = Err

\* C16: the automaton built for Repetition(Exact(n), r) accepts exactly the
\* concatenations of n strings of r, and the one built for
\* Repetition(Range(m, n), r) exactly the concatenations of k strings of r
\* with m <= k <= n.
C16_BoundedUnrolled ==
    /\ (pc = "built" /\ regex.t = "Repetition" /\ regex.rep.t = "Exact") =>
          \A w \in Inputs : Accepts(nfa, w) <=> InPower(w, regex.child, regex.rep.n)
    /\ (pc = "built" /\ regex.t = "Repetition" /\ regex.rep.t = "Range") =>
          \A w \in Inputs :
             Accepts(nfa, w) <=> \E k \in regex.rep.m..regex.rep.n : InPower(w, regex.child, k)

C16_Witness ==
    /\ pc = "built" /\ regex.t = "Repetition" /\ regex.rep = RepRange(1, 2)
    /\ regex.child.t = "Alternation"
    /\ Accepts(nfa, <<"a", "b">>) /\ ~Accepts(nfa, <<"a", "b", "a">>) /\ ~Accepts(nfa, <<>>)

RECURSIVE NoRepetitionOfEmpty(_)
\* no Repetition node of x (an AST or a Regex) has Empty as its direct child
NoRepetitionOfEmpty(x) ==
    /\ x.t = "Repetition" => x.child.t # "Empty" /\ NoRepetitionOfEmpty(x.child)
    /\ x.t = "Group" => NoRepetitionOfEmpty(x.child)
    /\ x.t \in {"Concat", "Alternation"} =>
          \A i \in 1..Len(x.items) : NoRepetitionOfEmpty(x.items[i])

\* s holds a run of ten or more digits: a count that may exceed u32::MAX,
\* which is what C15 is about
HasLongCount(s) == \E i \in 1..(Len(s) - 9) : \A j \in i..(i + 9) : is_digit(s[j])

\* the loop of ParserVM::parse stands on a repetition operator and the
\* working stack is empty
RepetitionOfNothing ==
    /\ pc = "parsing" /\ ~is_eof(pattern, parser.offset)
    /\ char(pattern, parser.offset) \in {"?", "*", "+", "{"}
    /\ stack = <<>>

C18_NoLoweredRepetitionOfEmpty ==
    pc = "lowered" => NoRepetitionOfEmpty(regex)

RECURSIVE Value(_)
\* the number the decimal ds stands for
Value(ds) == IF Len(ds) = 0 THEN 0 ELSE Value(Front(ds)) * 10 + to_digit(Last(ds))

\* where the first c of s stands
FirstAt(s, c) == CHOOSE i \in 1..Len(s) : s[i] = c /\ \A j \in 1..(i - 1) : s[j] # c

\* s is x{m,n} for a literal x and decimals m and n of one to nine digits,
\* followed by anything
IsCountedRange(s) ==
    /\ Len(s) >= 6 /\ s[1] \notin Metacharacters /\ s[2] = "{"
    /\ "," \in Chars(s) /\ "}" \in Chars(s)
    /\ FirstAt(s, ",") \in 4..12
    /\ FirstAt(s, "}") - FirstAt(s, ",") \in 2..10
    /\ \A j \in 3..(FirstAt(s, "}") - 1) : j = FirstAt(s, ",") \/ is_digit(s[j])

FirstCount(s) == Value(SubSeq(s, 3, FirstAt(s, ",") - 1))
SecondCount(s) == Value(SubSeq(s, FirstAt(s, ",") + 1, FirstAt(s, "}") - 1))

\* the pattern, whitespace in its braces apart, is x{m,n} with m > n
IsReversedRange(s) ==
    /\ IsCountedRange(Unspaced(s, 1, FALSE))
    /\ FirstCount(Unspaced(s, 1, FALSE)) > SecondCount(Unspaced(s, 1, FALSE))

RECURSIVE RangesOrdered(_)
\* every Repetition node of x with type Range(m, n) has m <= n
RangesOrdered(x) ==
    /\ x.t = "Repetition" =>
          /\ x.rep.t = "Range" => x.rep.m <= x.rep.n
          /\ RangesOrdered(x.child)
    /\ x.t = "Group" => RangesOrdered(x.child)
    /\ x.t \in {"Concat", "Alternation"} =>
          \A i \in 1..Len(x.items) : RangesOrdered(x.items[i])

RECURSIVE ClassRangesOrdered(_)
\* every ClassItem::Range of x has start < end
ClassRangesOrdered(x) ==
    /\ x.t = "Class" =>
          \A i \in 1..Len(x.items) :
             x.items[i].t = "Range" => Code(x.items[i].start) < Code(x.items[i].end)
    /\ x.t \in {"Repetition", "Group"} => ClassRangesOrdered(x.child)
    /\ x.t \in {"Concat", "Alternation"} =>
          \A i \in 1..Len(x.items) : ClassRangesOrdered(x.items[i])

\* the bracket expression s holds a range x-y with x >= y
HasReversedClassRange(s) ==
    /\ IsBracket(s)
    /\ \E i \in 1..Len(BodyItems(ClassBody(s), 1)) :
          /\ BodyItems(ClassBody(s), 1)[i].t = "Range"
          /\ Code(BodyItems(ClassBody(s), 1)[i].start) >= Code(BodyItems(ClassBody(s), 1)[i].end)

\* C20: a bracket expression with a range whose start is greater than or
\* equal to its end ([z-a], [a-a]) makes parse return Err, and every
\* ClassItem::Range of an AST that parse returns has start < end.
C20_ReversedClassRangeIsErr ==
    pc = "parsed" =>
        /\ HasReversedClassRange(pattern) => result = Err
        /\ pattern \in {<<"[", "z", "-", "a", "]">>, <<"[", "a", "-", "a", "]">>} => result = Err
        /\ result.kind = "Ok" => ClassRangesOrdered(result.ast)

C20_Witness ==
    /\ pc = "parsed" /\ result = Err /\ HasReversedClassRange(pattern)
    /\ pattern = <<"[", "a", "-", "a", "]">>

\* u is x{} for a literal x
IsMissingExact(u) ==
    Len(u) = 3 /\ u[1] \notin Metacharacters /\ u[2] = "{" /\ u[3] = "}"

\* u is x{,} for a literal x
IsMissingLower(u) ==
    Len(u) = 4 /\ u[1] \notin Metacharacters /\ u[2] = "{" /\ u[3] = "," /\ u[4] = "}"

\* u is x{,n} for a literal x and a decimal n of one to nine digits
IsMissingFirst(u) ==
    /\ Len(u) \in 5..13 /\ u[1] \notin Metacharacters
    /\ u[2] = "{" /\ u[3] = "," /\ u[Len(u)] = "}"
    /\ \A j \in 4..(Len(u) - 1) : is_digit(u[j])

\* C21: a bounded repetition with a missing digit sequence parses as if the
\* missing bound were 0 and parse returns Ok: x{} gives Exact(0), x{,n} gives
\* Range(0, n) and x{,} gives Lower(0), whitespace in the braces or not.
C21_MissingDigitsAreZero ==
    pc = "parsed" =>
        LET u == Unspaced(pattern, 1, FALSE) IN
        /\ IsMissingExact(u) => result = Ok(Repetition(RepExact(0), Literal(u[1])))
        /\ IsMissingLower(u) => result = Ok(Repetition(RepLower(0), Literal(u[1])))
        /\ IsMissingFirst(u) =>
              result = Ok(Repetition(RepRange(0, Value(SubSeq(u, 4, Len(u) - 1))),
                                     Literal(u[1])))

C21_Witness ==
    /\ pc = "parsed" /\ pattern = <<"x", "{", ",", "2", "}">>
    /\ IsMissingFirst(Unspaced(pattern, 1, FALSE))
    /\ result = Ok(Repetition(RepRange(0, 2), Literal("x")))

RECURSIVE ClassNodes(_)
\* the Class nodes of the Regex r
ClassNodes(r) ==
    CASE r.t = "Class" -> {r}
      [] r.t = "Repetition" -> ClassNodes(r.child)
      [] r.t \in {"Concat", "Alternation"} ->
            UNION {ClassNodes(r.items[i]) : i \in 1..Len(r.items)}
      [] OTHER -> {}

\* the transition an item of a class stands for
ItemTransition(item, to) ==
    IF item.t = "Ordinary"
    THEN Transition(to, FALSE, item.c, item.c)
    ELSE Transition(to, FALSE, item.start, item.end)

\* b is n with two more states, entry and exit, and one transition from
\* entry to exit per item, in the order of the items
IsClassComponent(b, n, items) ==
    /\ Len(b.nfa.states) = Len(n.states) + 2
    /\ SubSeq(b.nfa.states, 1, Len(n.states)) = n.states
    /\ b.initial = Len(n.states) /\ b.accepting = Len(n.states) + 1
    /\ b.nfa.states[b.initial + 1] =
          [i \in 1..Len(items) |-> ItemTransition(items[i], b.accepting)]
    /\ b.nfa.states[b.accepting + 1] = <<>>

\* C22: the component built for Class{negated, items} does not depend on
\* negated: for both values it is one transition from entry to exit per item
\* (c-c for Ordinary(c), start-end for Range), on a new automaton and on the
\* built one alike; so the automaton for [^a] accepts "a", and run on it
\* returns true for "a".
C22_NegatedClassIgnored ==
    pc \in {"built", "running", "done"} =>
        /\ \A c \in ClassNodes(regex) : \A negated \in BOOLEAN : \A n \in {NFANew, nfa} :
              IsClassComponent(build_class(n, negated, c.items), n, c.items)
        /\ regex.t = "Class" => nfa = from_regex(RClass(~regex.negated, regex.items))
        /\ pattern = <<"[", "^", "a", "]">> =>
              /\ Accepts(nfa, <<"a">>)
              /\ pc = "done" /\ input = <<"a">> => verdict = TRUE

C22_Witness ==
    /\ pc = "done" /\ pattern = <<"[", "^", "a", "]">> /\ input = <<"a">>
    /\ regex = RClass(TRUE, <<Ordinary("a")>>)
    /\ nfa.states = <<<<Transition(1, FALSE, "a", "a")>>, <<>>>>
    /\ verdict = TRUE

\* how many times build_node(n, r) calls build_node on a child of r
ChildCount(r) ==
    CASE r.t = "Repetition" ->
            (IF r.rep.t = "Exact" THEN r.rep.n
             ELSE IF r.rep.t = "Lower" THEN r.rep.n + 1
             ELSE r.rep.n)
      [] r.t \in {"Concat", "Alternation"} -> Len(r.items)
      [] OTHER -> 0

\* the Regex the j-th of these calls is given
Child(r, j) == IF r.t = "Repetition" THEN r.child ELSE r.items[j]

\* the automaton as the j-th of these calls finds it: what build_node(n, r)
\* has done before that call
ChildBefore(n, r, j) ==
    CASE r.t = "Repetition" /\ (r.rep.t # "Range" \/ j <= r.rep.m) ->
            chain(TwoStates(n).nfa, r.child, j - 1, TwoStates(n).initial).nfa
      [] r.t = "Repetition" /\ r.rep.t = "Range" /\ j > r.rep.m ->
            LET b == TwoStates(n)
                c == chain(b.nfa, r.child, r.rep.m, b.initial)
                n1 == add_epsilon_transition(c.nfa, c.prev, b.accepting)
            IN  optional_chain(n1, r.child, j - 1 - r.rep.m, c.prev, b.accepting)
      [] r.t = "Concat" ->
            concat_chain(add_state(n), SubSeq(r.items, 1, j - 1), 1, last_id(add_state(n))).nfa
      [] r.t = "Alternation" ->
            alternation_loop(TwoStates(n).nfa, SubSeq(r.items, 1, j - 1), 1,
                             TwoStates(n).initial, TwoStates(n).accepting)

RECURSIVE BuilderCalls(_, _)
\* the calls of build_node that build_node(n, r) amounts to, itself included:
\* the automaton each call finds and the component and automaton it leaves
BuilderCalls(n, r) ==
    {[before |-> n, after |-> build_node(n, r)]} \cup
    UNION {BuilderCalls(ChildBefore(n, r, j), Child(r, j)) : j \in 1..ChildCount(r)}

\* the ids of the states the call c created
Created(c) == Len(c.before.states)..(Len(c.after.nfa.states) - 1)

\* the call c left every state it found, with the transitions it found
Preserves(c) ==
    /\ Len(c.after.nfa.states) >= Len(c.before.states)
    /\ SubSeq(c.after.nfa.states, 1, Len(c.before.states)) = c.before.states

\* no transition of n from a state the call c did not create targets a state
\* it created, the entry of its component apart
EnteredAtEntry(n, c) ==
    \A q \in (0..(Len(n.states) - 1)) \ Created(c) :
       \A tr \in Transitions(n, q) :
          tr.next \in Created(c) => tr.next = c.after.initial

\* C23: components do not interfere.  Every call of the builder creates
\* states that none of the states there before is (its entry and exit among
\* them), so that two components share no state unless one lies within the
\* other; it removes no state and changes no transition that was there, the
\* finished automaton keeps what each call left, and in the finished
\* automaton no transition from outside a component targets a state of it
\* other than its entry.
C23_ComponentsDoNotInterfere ==
    pc = "built" =>
        \A c \in BuilderCalls(NFANew, regex) :
           /\ Preserves(c)
           /\ \A d \in BuilderCalls(NFANew, regex) :
                 \/ Created(c) \cap Created(d) = {}
                 \/ Created(c) \subseteq Created(d)
                 \/ Created(d) \subseteq Created(c)
           /\ Created(c) # {}
           /\ c.after.initial \in Created(c) /\ c.after.accepting \in Created(c)
           /\ Len(nfa.states) >= Len(c.after.nfa.states)
           /\ \A q \in 0..(Len(c.after.nfa.states) - 1) :
                 SubSeq(nfa.states[q + 1], 1, Len(c.after.nfa.states[q + 1]))
                    = c.after.nfa.states[q + 1]
           /\ EnteredAtEntry(nfa, c)

C23_Witness ==
    /\ pc = "built" /\ pattern = <<"(", "a", "|", "b", ")", "{", "1", ",", "2", "}">>
    /\ \E c \in BuilderCalls(NFANew, regex) :
          /\ c.before # NFANew /\ Len(nfa.states) > Len(c.after.nfa.states)
          /\ \E q \in (0..(Len(nfa.states) - 1)) \ Created(c) :
                \E tr \in Transitions(nfa, q) : tr.next = c.after.initial

\* the ids of the states of n
StateIds(n) == 0..(Len(n.states) - 1)

RECURSIVE ReachableFrom(_, _)
\* the states of n that a path of transitions, of either kind, leads to from
\* a state of Q
ReachableFrom(n, Q) ==
    LET R == Q \cup {tr.next : tr \in UNION {Transitions(n, q) : q \in Q}}
    IN  IF R = Q THEN Q ELSE ReachableFrom(n, R)

\* C24: after NFA::from_regex on the Regex lowered from a pattern that parse
\* accepts, initial and accepting are ids of existing states, every
\* transition targets an existing state, and every state is reachable from
\* the initial state.
C24_AutomatonWellFormed ==
    pc = "built" =>
        /\ nfa.initial \in StateIds(nfa) /\ nfa.accepting \in StateIds(nfa)
        /\ \A q \in StateIds(nfa) : \A tr \in Transitions(nfa, q) : tr.next \in StateIds(nfa)
        /\ ReachableFrom(nfa, {nfa.initial}) = StateIds(nfa)

C24_Witness ==
    /\ pc = "built" /\ result.kind = "Ok"
    /\ pattern = <<"(", ".", "|", "a", ")", "b">>
    /\ regex.t = "Concat" /\ Len(nfa.states) = 9
    /\ nfa.initial = 0 /\ nfa.accepting = 8
    /\ ReachableFrom(nfa, {nfa.initial}) = 0..8

RECURSIVE ConcatsHaveTwo(_)
\* every Concat node of the AST x has at least two elements
ConcatsHaveTwo(x) ==
    /\ x.t = "Concat" => Len(x.items) >= 2
    /\ x.t \in {"Repetition", "Group"} => ConcatsHaveTwo(x.child)
    /\ x.t \in {"Concat", "Alternation"} =>
          \A i \in 1..Len(x.items) : ConcatsHaveTwo(x.items[i])

\* what a working stack is to become where it is reduced
Normalized(st) ==
    CASE Len(st) = 0 -> Empty
      [] Len(st) = 1 -> st[1]
      [] OTHER -> Concat(st)

\* a step of the loop at ')' with a group open: the group gets the reduced
\* stack, as a Group or as one more branch of its Alternation
ReducedAtClose ==
    InLoop /\ Cur = ")" /\ Len(parser.group_stack) > 0 =>
        IF last_is_alternation(Last(parser.group_stack))
        THEN Last(Last(stack').items) = Normalized(stack)
        ELSE Last(stack') = Group(Normalized(stack))

\* a step of the loop at '|' that the loop survives: the reduced stack is the
\* last branch of the Alternation last in the innermost group
ReducedAtBar ==
    InLoop /\ Cur = "|" /\ pc' = "parsing" =>
        /\ Last(Last(parser'.group_stack)).t = "Alternation"
        /\ Last(Last(Last(parser'.group_stack)).items) = Normalized(stack)

\* the step at end of input that returns Ok: the reduced stack is the result,
\* or the last branch of the Alternation that is, or ends, the result
ReducedAtEnd ==
    pc = "parsing" /\ is_eof(pattern, parser.offset) /\ result'.kind = "Ok" =>
        IF Len(parser.group_stack) = 0
        THEN result'.ast = Normalized(stack)
        ELSE IF Len(Last(parser.group_stack)) = 1
        THEN /\ result'.ast.t = "Alternation"
             /\ Last(result'.ast.items) = Normalized(stack)
        ELSE /\ result'.ast.t = "Concat"
             /\ Len(result'.ast.items) = Len(Last(parser.group_stack))
             /\ Last(Last(result'.ast.items).items) = Normalized(stack)

\* C25: every Concat node of an AST that parse returns has at least two
\* elements, and so has every Concat node the parser holds while it runs:
\* wherever a working stack is reduced (at ')', at '|' and at end of input)
\* an empty stack becomes Empty and a stack of one element that element.
C25_ConcatHasTwoElements ==
    /\ [](/\ result.kind = "Ok" => ConcatsHaveTwo(result.ast)
          /\ \A i \in 1..Len(stack) : ConcatsHaveTwo(stack[i])
          /\ \A i \in 1..Len(parser.group_stack) :
                \A j \in 1..Len(parser.group_stack[i]) :
                   ConcatsHaveTwo(parser.group_stack[i][j]))
    /\ [][ReducedAtClose /\ ReducedAtBar /\ ReducedAtEnd]_vars

C25_Witness ==
    /\ pc = "parsed" /\ pattern = <<"a", "|", "b", "|", "c", "d">>
    /\ result = Ok(Alternation(<<Literal("a"), Literal("b"),
                                 Concat(<<Literal("c"), Literal("d")>>)>>))
    /\ ConcatsHaveTwo(result.ast)

====
